---- MODULE Spec2Model ----
(***************************************************************************)
(* mockfacebook: the Graph API mock engine (graph.py) served from the two  *)
(* generic SQLite tables graph_objects and graph_connections, the          *)
(* test-users endpoint (app.py) served from oauth_access_tokens, and the   *)
(* conversion of FQL fixture objects to table rows and back                *)
(* (schemautil.py).                                                        *)
(*                                                                         *)
(* Strings that the code takes apart (names, the ids query parameter,      *)
(* formatted messages, SQL literals, JSON text kept in a column) are       *)
(* sequences of tokens; a name is a sequence of one-character tokens.      *)
(* Python sets are TLA+ sets, and where the code iterates a set the        *)
(* iteration order is any enumeration of it.  A SELECT without ORDER BY is *)
(* a scan of the table in storage (insertion) order.                       *)
(***************************************************************************)
EXTENDS Integers, Sequences, FiniteSets, TLC

VARIABLES graph_objects, graph_connections, oauth_access_tokens, handlers, request, response,
          queries, raised, fql_data, fql_table, fql_objects

vars ==
  <<graph_objects, graph_connections, oauth_access_tokens, handlers, request, response, queries,
    raised, fql_data, fql_table, fql_objects>>

\* the variables of the FQL fixtures
fql_vars == <<fql_data, fql_table, fql_objects>>

(* ------------------------------ bounds ------------------------------ *)

MaxObjects == 2

MaxRows == 2

MaxIds == 2

MaxIdsWithPath == 1

MaxTokens == 3

MaxFields == 3

(* ----------------------- strings as token lists ---------------------- *)

Range(s) == {s[i] : i \in DOMAIN s}

Str1(c) == <<c>>

\* str.join: the pieces with sep between consecutive ones
RECURSIVE str_join(_, _)
str_join(sep, ss) ==
  IF ss = <<>> THEN <<>>
  ELSE IF Len(ss) = 1 THEN Head(ss)
  ELSE Head(ss) \o sep \o str_join(sep, Tail(ss))

\* str.split(sep) for a one-character sep: always at least one piece; a
\* leading, trailing or doubled separator yields an empty piece.
RECURSIVE str_split(_, _)
str_split(s, sep) ==
  IF \A i \in DOMAIN s : s[i] # sep THEN <<s>>
  ELSE LET k == CHOOSE i \in DOMAIN s : s[i] = sep /\ \A j \in 1..(i - 1) : s[j] # sep
       IN  <<SubSeq(s, 1, k - 1)>> \o str_split(SubSeq(s, k + 1, Len(s)), sep)

\* every enumeration of a set: the orders in which iterating a Python set
\* (hash order) can yield its elements
SetIterations(S) ==
  {f \in [1..Cardinality(S) -> S] : \A i, j \in 1..Cardinality(S) : i # j => f[i] # f[j]}

(* ------------------------------ json -------------------------------- *)

\* Values that json reads and writes carry their type: a dict is a function
\* from strings to values, a list a sequence of values, a string its tokens.
JObject(f) == [t |-> "object", v |-> f]

JArray(s) == [t |-> "array", v |-> s]

JString(s) == [t |-> "string", v |-> s]

\* a string given as one token
Tok(c) == <<c>>

\* json.dumps: a value becomes JSON text
json_dumps(v) == [json_text |-> v]

\* json.loads: JSON text becomes the value it encodes
json_loads(t) == t.json_text

(* --------------------------- the error kinds ------------------------- *)

None == <<"None">>

REDIRECT_CONNECTION == "picture"

GraphErrors ==
  {"ObjectNotFoundError", "ObjectsNotFoundError", "ConnectionNotFoundError",
   "AccessTokenError", "AliasNotFoundError", "BadGetError", "UnknownPathError",
   "IdSpecifiedError", "EmptyIdentifierError"}

\* class attribute message: the template, "%s" marking the argument
GraphError_message(cls) ==
  CASE cls = "ObjectNotFoundError" -> <<"false">>
    [] cls = "ObjectsNotFoundError" -> <<"[", "\n", "\n", "]">>
    [] cls = "ConnectionNotFoundError" -> <<"{", "\n", "  \"data\": [", "\n", "  ]", "\n", "}">>
    [] cls = "AccessTokenError" ->
         <<"A user access token is required to request this resource.">>
    [] cls = "AliasNotFoundError" ->
         <<"(#803) Some of the aliases you requested do not exist: ", "%s">>
    [] cls = "BadGetError" -> <<"Unsupported get request.">>
    [] cls = "UnknownPathError" -> <<"Unknown path components: /", "%s">>
    [] cls = "IdSpecifiedError" ->
         <<"Invalid token: \"", "%s", "\".  An ID has already been specified.">>
    [] cls = "EmptyIdentifierError" -> <<"Cannot specify an empty identifier">>

\* class attribute type: None when the kind has no type tag
GraphError_type(cls) ==
  CASE cls \in {"AccessTokenError", "AliasNotFoundError", "UnknownPathError",
                "IdSpecifiedError", "EmptyIdentifierError"} -> "OAuthException"
    [] cls = "BadGetError" -> "GraphMethodException"
    [] OTHER -> "None"

\* template % args: each "%s" is replaced by the next argument
RECURSIVE percent_format(_, _)
percent_format(template, args) ==
  IF template = <<>> THEN <<>>
  ELSE IF Head(template) = "%s"
       THEN Head(args) \o percent_format(Tail(template), Tail(args))
       ELSE <<Head(template)>> \o percent_format(Tail(template), args)

\* GraphError.__init__
GraphError_init(cls, args) ==
  [class |-> cls,
   message |-> percent_format(GraphError_message(cls), args),
   type |-> GraphError_type(cls)]

NoError == [class |-> "None", message |-> <<>>, type |-> "None"]

\* an exception that is no GraphError (it is not caught by BaseHandler.get)
TypeError == [class |-> "TypeError", message |-> <<"'NoneType' object is not iterable">>,
              type |-> "None"]

\* GraphError.__unicode__
GraphError_unicode(e) ==
  IF e.type # "None"
  THEN json_dumps(JObject(Tok("error") :>
         JObject(Tok("message") :> JString(e.message) @@ Tok("type") :> JString(Tok(e.type)))))
  ELSE [text |-> e.message]

(* ------------------------------ is_int ------------------------------- *)

DigitChars == {"0", "1", "2", "3", "4", "5", "6", "7", "8", "9"}

RECURSIVE str_strip(_)
str_strip(s) ==
  IF s # <<>> /\ Head(s) = " " THEN str_strip(Tail(s))
  ELSE IF s # <<>> /\ s[Len(s)] = " " THEN str_strip(SubSeq(s, 1, Len(s) - 1))
  ELSE s

\* is_int: int(str) succeeds on optional blanks, an optional sign, then digits
is_int(str) ==
  LET t == str_strip(str)
      u == IF t # <<>> /\ Head(t) \in {"+", "-"} THEN Tail(t) ELSE t
  IN  u # <<>> /\ \A i \in DOMAIN u : u[i] \in DigitChars

not_int(str) == ~is_int(str)

(* ----------------------------- the store ----------------------------- *)

ObjectIds == {Str1("1"), Str1("2")}

Aliases == {None, Str1("a"), Str1("b"), Str1("1")}

\* the one identity the handlers are initialised with (testutil.ME)
ME == Str1("1")

\* the names a request can carry, in the path or in ids=
RequestNames ==
  {<<>>, Str1("0"), Str1("1"), Str1("2"), Str1("a"), Str1("b"), <<"m", "e">>}

\* connection names stored by the fixtures
StoredConnections == {"albums", REDIRECT_CONNECTION}

\* connection names a request can carry (the route's <connection> is non-empty)
RequestConnections == {"albums", REDIRECT_CONNECTION, "foo"}

HandlerClasses == {"ObjectHandler", "ConnectionHandler"}

\* GraphSchema.connections: table name -> connection names
graph_schema_connections ==
  [album |-> {REDIRECT_CONNECTION}, user |-> {"albums", REDIRECT_CONNECTION}]

\* the payload of the object with this id
object_payload(id) == JObject(Tok("id") :> JString(id) @@ Tok("foo") :> JString(Tok("bar")))

\* the payload of the n-th connection row: an object for a list connection,
\* a URL string for the picture connection
connection_payload(connection, n) ==
  IF connection = REDIRECT_CONNECTION THEN JString(<<"http://picture/", ToString(n)>>)
  ELSE JObject(Tok("id") :> JString(Tok(ToString(n))))

\* SELECT id, alias FROM graph_objects WHERE id IN (names) OR alias IN (names)
select_objects_by_name(table, names) ==
  LET match(r) == r.id \in names \/ r.alias \in names
  IN  SelectSeq(table, match)

\* SELECT id, data FROM graph_objects WHERE id IN (ids)
select_objects_by_id(table, ids) ==
  LET match(r) == r.id \in ids
  IN  SelectSeq(table, match)

\* SELECT id, data FROM graph_connections WHERE id IN (ids) AND connection = ?
select_connections(table, ids, connection) ==
  LET match(r) == r.id \in ids /\ r.connection = connection
  IN  SelectSeq(table, match)

(* ---------------------------- prepare_ids ---------------------------- *)

\* namedict_value preferring the id to the alias
namedict_value_prefers_id(id, alias, names) == IF id \in names THEN id ELSE alias

\* the name an id was requested by: namedict[id] = alias if alias in names else id
namedict_value(id, alias, names) == IF alias \in names THEN alias ELSE id

\* for id, alias in cursor.fetchall(): namedict[id] = ...   (a later row
\* with the same id overwrites an earlier one)
RECURSIVE namedict_fill(_, _)
namedict_fill(rows, names) ==
  IF rows = <<>> THEN <<>>
  ELSE LET r == rows[Len(rows)]
       IN  (r.id :> namedict_value(r.id, r.alias, names))
             @@ namedict_fill(SubSeq(rows, 1, Len(rows) - 1), names)

dict_values(d) == {d[k] : k \in DOMAIN d}

\* valid_names rejecting the empty name only
valid_names_nonempty(names) == \A name \in names : name # <<>>

\* all(name and name != '0' for name in names)
valid_names(names) == \A name \in names : name # <<>> /\ name # Str1("0")

\* id_already_specified taking an empty ids= for an absent one
id_already_specified_nonempty(path_id, has_ids, ids_names) ==
  path_id # <<>> /\ has_ids /\ ids_names # {<<>>}

\* if path_id: if names: raise IdSpecifiedError  (names is None without ids=,
\* and a set that str.split never leaves empty with it)
id_already_specified(path_id, has_ids, ids_names) ==
  path_id # <<>> /\ has_ids /\ ids_names # {}

\* not_found_error telling the two forms apart by the number of names
not_found_error_by_count(not_found_list, path_id) ==
  LET aliases == SelectSeq(not_found_list, not_int)
  IN  IF aliases # <<>> THEN GraphError_init("AliasNotFoundError", <<str_join(<<",">>, aliases)>>)
      ELSE IF Len(not_found_list) = 1 THEN GraphError_init("ObjectNotFoundError", <<>>)
      ELSE GraphError_init("ObjectsNotFoundError", <<>>)

\* the error raised for a non-empty not_found, iterated in the order given
not_found_error(not_found_list, path_id) ==
  LET aliases == SelectSeq(not_found_list, not_int)
  IN  IF aliases # <<>> THEN GraphError_init("AliasNotFoundError", <<str_join(<<",">>, aliases)>>)
      ELSE IF path_id # <<>> THEN GraphError_init("ObjectNotFoundError", <<>>)
      ELSE GraphError_init("ObjectsNotFoundError", <<>>)

raise(e, q) == [exc |-> e, namedict |-> <<>>, single |-> FALSE, queries |-> q]

\* BaseHandler.prepare_ids: every outcome it can have (one per iteration
\* order of the not_found set); queries counts the SELECTs executed
prepare_ids(table, path_id, has_ids, ids) ==
  LET ids_names == Range(str_split(ids, ","))
      names == IF path_id # <<>> THEN {path_id} ELSE ids_names
      rows == select_objects_by_name(table, names)
      namedict == namedict_fill(rows, names)
      not_found == names \ (dict_values(namedict) \cup DOMAIN namedict)
  IN  IF id_already_specified(path_id, has_ids, ids_names)
        THEN {raise(GraphError_init("IdSpecifiedError", <<path_id>>), 0)}
      ELSE IF path_id = <<>> /\ ~has_ids
        THEN {raise(TypeError, 0)}
      ELSE IF ~valid_names(names)
        THEN {raise(GraphError_init("EmptyIdentifierError", <<>>), 0)}
      ELSE IF not_found # {}
        THEN {raise(not_found_error(it, path_id), 1) : it \in SetIterations(not_found)}
      ELSE {[exc |-> NoError, namedict |-> namedict, single |-> path_id # <<>>,
             queries |-> 1]}

(* ------------------------------- _get -------------------------------- *)

\* object_dict keyed by the stored id instead of the requested name
RECURSIVE object_dict_by_id(_, _)
object_dict_by_id(rows, namedict) ==
  IF rows = <<>> THEN <<>>
  ELSE LET r == rows[Len(rows)]
       IN  (r.id :> json_loads(r.data))
             @@ object_dict_by_id(SubSeq(rows, 1, Len(rows) - 1), namedict)

\* dict((namedict[id], json.loads(data)) for id, data in rows): a later row
\* with the same key overwrites an earlier one
RECURSIVE object_dict(_, _)
object_dict(rows, namedict) ==
  IF rows = <<>> THEN <<>>
  ELSE LET r == rows[Len(rows)]
       IN  (namedict[r.id] :> json_loads(r.data))
             @@ object_dict(SubSeq(rows, 1, Len(rows) - 1), namedict)

returned(resp, q) ==
  [exc |-> NoError, redirected |-> FALSE, location |-> <<>>, resp |-> resp, queries |-> q]

\* ObjectHandler._get
ObjectHandler_get(table, namedict) ==
  returned(object_dict(select_objects_by_id(table, DOMAIN namedict), namedict), 1)

\* all_connections_of keeping only the names every table has
all_connections_of_common(connections) ==
  {c \in UNION {connections[t] : t \in DOMAIN connections} :
     \A t \in DOMAIN connections : c \in connections[t]}

\* reduce(set.union, cls.schema.connections.values(), set())
all_connections_of(connections) == UNION {connections[t] : t \in DOMAIN connections}

\* connection not in self.all_connections
unknown_path(connection, all_connections) == connection \notin all_connections

\* redirect_row taking the last row
redirect_row_last(rows) == rows[Len(rows)]

\* the row whose URL the picture redirect uses: rows[0]
redirect_row(rows) == rows[1]

\* resp = dict((name, {'data': []}) for name in namedict.values()), each
\* entry held as its data list
empty_connections(namedict) == [name \in dict_values(namedict) |-> <<>>]

\* connection_fill putting each row before the earlier ones
RECURSIVE connection_fill_prepend(_, _, _)
connection_fill_prepend(resp, rows, namedict) ==
  IF rows = <<>> THEN resp
  ELSE LET r == Head(rows)
           key == namedict[r.id]
       IN  connection_fill_prepend(
             [resp EXCEPT ![key] = <<json_loads(r.data)>> \o resp[key]], Tail(rows), namedict)

\* for id, data in rows: resp[namedict[id]]['data'].append(json.loads(data))
RECURSIVE connection_fill(_, _, _)
connection_fill(resp, rows, namedict) ==
  IF rows = <<>> THEN resp
  ELSE LET r == Head(rows)
           key == namedict[r.id]
       IN  connection_fill([resp EXCEPT ![key] = Append(resp[key], json_loads(r.data))],
                           Tail(rows), namedict)

\* the dict name -> {'data': [...]}
connection_dict(lists) ==
  [name \in DOMAIN lists |-> JObject(Tok("data") :> JArray(lists[name]))]

\* ConnectionHandler._get
ConnectionHandler_get(table, all_connections, namedict, connection) ==
  LET rows == select_connections(table, DOMAIN namedict, connection)
  IN  IF unknown_path(connection, all_connections)
        THEN [exc |-> GraphError_init("UnknownPathError", <<Tok(connection)>>),
              redirected |-> FALSE, location |-> <<>>, resp |-> <<>>, queries |-> 0]
      ELSE IF connection = REDIRECT_CONNECTION /\ rows # <<>>
        THEN [exc |-> NoError, redirected |-> TRUE,
              location |-> json_loads(redirect_row(rows).data).v,
              resp |-> <<>>, queries |-> 1]
      ELSE returned(connection_dict(
                      connection_fill(empty_connections(namedict), rows, namedict)), 1)

(* -------------------------------- get -------------------------------- *)

NoLocation == <<>>

http_response(status, body, location) ==
  [status |-> status, body |-> body, location |-> location]

\* the tail of BaseHandler.get after _get returned a result: the single
\* form collapses the mapping to its one value
shape_response(single, resp) ==
  IF single
  THEN IF DOMAIN resp = {} THEN http_response(200, json_dumps(JArray(<<>>)), NoLocation)
       ELSE IF Cardinality(DOMAIN resp) # 1
         THEN http_response(500, [exception |-> "AssertionError"], NoLocation)
       ELSE http_response(200, json_dumps(resp[CHOOSE k \in DOMAIN resp : TRUE]), NoLocation)
  ELSE http_response(200, json_dumps(JObject(resp)), NoLocation)

\* error_response answering a domain error with status 400
error_response_400(e) ==
  IF e.class \in GraphErrors THEN http_response(400, GraphError_unicode(e), NoLocation)
  ELSE http_response(500, [exception |-> e.class], NoLocation)

\* except GraphError, e: resp = unicode(e); any other exception escapes
error_response(e) ==
  IF e.class \in GraphErrors THEN http_response(200, GraphError_unicode(e), NoLocation)
  ELSE http_response(500, [exception |-> e.class], NoLocation)

\* webapp2's redirect(..., abort=True) raises this
HTTPFound == [class |-> "HTTPFound", message |-> <<>>, type |-> "None"]

\* BaseHandler.get for the handler class cls: every way it can end, as the
\* response, the number of SELECTs executed and the exception raised inside
BaseHandler_get(cls, objects, connections, all_connections, path_id, has_ids, ids, connection) ==
  {LET g == IF cls = "ObjectHandler" THEN ObjectHandler_get(objects, p.namedict)
            ELSE ConnectionHandler_get(connections, all_connections, p.namedict, connection)
   IN  IF p.exc # NoError
         THEN [response |-> error_response(p.exc), queries |-> p.queries, raised |-> p.exc]
       ELSE IF g.exc # NoError
         THEN [response |-> error_response(g.exc), queries |-> p.queries + g.queries,
               raised |-> g.exc]
       ELSE IF g.redirected
         THEN [response |-> http_response(302, [exception |-> "HTTPFound"], g.location),
               queries |-> p.queries + g.queries, raised |-> HTTPFound]
       ELSE [response |-> shape_response(p.single, g.resp),
             queries |-> p.queries + g.queries, raised |-> NoError]
   : p \in prepare_ids(objects, path_id, has_ids, ids)}

(* ----------------------------- test users ---------------------------- *)

\* the user ids and tokens the token table can hold
UserIds == {Str1("1"), Str1("2")}

Tokens == {Str1("t"), Str1("u")}

\* the app ids a request can carry: the route's (\d+)
AppIds == {Str1("1"), Str1("2"), <<"4", "2">>}

\* select_tokens without DISTINCT: one result row per stored row
select_all_tokens(table) == [i \in DOMAIN table |-> <<table[i].user_id, table[i].token>>]

\* SELECT DISTINCT user_id, token FROM oauth_access_tokens: the scan in
\* storage order, a pair kept the first time it is met
RECURSIVE select_tokens(_)
select_tokens(table) ==
  IF table = <<>> THEN <<>>
  ELSE LET rest == select_tokens(SubSeq(table, 1, Len(table) - 1))
           row == <<table[Len(table)].user_id, table[Len(table)].token>>
       IN  IF row \in Range(rest) THEN rest ELSE Append(rest, row)

\* {'id': user_id, 'access_token': token}
test_user(row) == JObject(Tok("id") :> JString(row[1]) @@ Tok("access_token") :> JString(row[2]))

\* TestUsersHandler.get(app_id)
TestUsersHandler_get(table, app_id) ==
  LET rows == select_tokens(table)
      data == [i \in DOMAIN rows |-> test_user(rows[i])]
  IN  http_response(200, json_dumps(JObject(Tok("data") :> JArray(data))), NoLocation)

(* ------------------------ schema and fixtures ------------------------- *)

\* Python values that are no string, list or dict
JNull == [t |-> "null", v |-> <<>>]

JBool(b) == [t |-> "bool", v |-> b]

JInt(n) == [t |-> "int", v |-> n]

\* Column = namedtuple('Column', ('name', 'fb_type', 'sqlite_type', 'indexable'))
Column(name, fb_type, sqlite_type, indexable) ==
  [name |-> name, fb_type |-> fb_type, sqlite_type |-> sqlite_type, indexable |-> indexable]

\* Schema.tables: one table with a composite column (empty sqlite_type), a
\* boolean column, an integer column and a string column
fql_schema_tables ==
  [user |-> <<Column("affiliations", "array", "", FALSE),
              Column("is_app_user", "bool", "INTEGER", FALSE),
              Column("uid", "int", "INTEGER", TRUE),
              Column("name", "string", "TEXT", FALSE)>>]

ColumnNames(table) == {fql_schema_tables[table][i].name : i \in DOMAIN fql_schema_tables[table]}

\* the values a field of a fixture object can hold
FieldValues ==
  {JNull, JBool(TRUE), JBool(FALSE), JInt(0), JInt(5),
   JString(<<>>), JString(<<"x">>), JString(<<"5">>), JString(<<"'">>),
   JArray(<<>>), JArray(<<JString(<<"x">>)>>), JObject(Tok("k") :> JString(<<"x">>))}

\* the decoded JSON objects of a table's fixtures: any of the declared fields
\* may be missing
Fixtures(table) ==
  UNION {[S -> FieldValues] :
           S \in {T \in SUBSET ColumnNames(table) : Cardinality(T) <= MaxFields}}

\* the values json text can decode to
JsonValues == FieldValues \cup {JInt(n) : n \in 0..9}

\* the characters of a word
Chars(word) ==
  CASE word = "null" -> <<"n", "u", "l", "l">>
    [] word = "true" -> <<"t", "r", "u", "e">>
    [] word = "false" -> <<"f", "a", "l", "s", "e">>

\* json.dumps(val), as the characters it writes (the strings held by the
\* composite values here need no escape)
RECURSIVE json_dumps_str(_)
json_dumps_str(val) ==
  CASE val.t = "null" -> Chars("null")
    [] val.t = "bool" -> IF val.v THEN Chars("true") ELSE Chars("false")
    [] val.t = "int" -> <<ToString(val.v)>>
    [] val.t = "string" -> <<"\"">> \o val.v \o <<"\"">>
    [] val.t = "array" ->
         <<"[">> \o str_join(<<",", " ">>, [i \in DOMAIN val.v |-> json_dumps_str(val.v[i])])
                 \o <<"]">>
    [] val.t = "object" ->
         LET keys == CHOOSE it \in SetIterations(DOMAIN val.v) : TRUE
         IN  <<"{">> \o str_join(<<",", " ">>,
                          [i \in DOMAIN keys |->
                             <<"\"">> \o keys[i] \o <<"\"", ":", " ">>
                               \o json_dumps_str(val.v[keys[i]])])
                     \o <<"}">>

\* an exception in place of a value
Raised(cls) == [t |-> "raised", v |-> cls]

\* json.loads(val): TypeError when val is no string, ValueError when the
\* string is no JSON text, else the value the text encodes
json_loads_str(val) ==
  IF val.t # "string" THEN Raised("TypeError")
  ELSE IF \A v \in JsonValues : json_dumps_str(v) # val.v THEN Raised("ValueError")
  ELSE CHOOSE v \in JsonValues : json_dumps_str(v) = val.v

\* val.replace("'", "''")
RECURSIVE double_quotes(_)
double_quotes(str) ==
  IF str = <<>> THEN <<>>
  ELSE IF Head(str) = "'" THEN <<"'", "'">> \o double_quotes(Tail(str))
  ELSE <<Head(str)>> \o double_quotes(Tail(str))

\* the SQL literal values_to_sqlite writes for one value
sqlite_value(val) ==
  CASE val.t = "bool" -> <<ToString(IF val.v THEN 1 ELSE 0)>>
    [] val.t = "string" -> <<"'">> \o double_quotes(val.v) \o <<"'">>
    [] val.t = "null" -> <<"NULL">>
    [] OTHER -> json_dumps_str(val)

\* the separator values_to_sqlite joins the literals with
ValuesSeparator == ",\n  "

\* values_to_sqlite(input)
values_to_sqlite(input) ==
  str_join(<<ValuesSeparator>>, [i \in DOMAIN input |-> sqlite_value(input[i])])

\* object.get(key, default)
dict_get(object, key, default) == IF key \in DOMAIN object THEN object[key] ELSE default

\* Schema.json_to_sqlite(object, table)
json_to_sqlite(object, table) ==
  LET columns == fql_schema_tables[table]
      values == [i \in DOMAIN columns |->
                   LET val == dict_get(object, columns[i].name, JString(<<>>))
                   IN  IF val.t \in {"array", "object"} THEN JString(json_dumps_str(val))
                       ELSE val]
  IN  values_to_sqlite(values)

\* SQLite reading a quoted string: a doubled quote is one quote
RECURSIVE single_quotes(_)
single_quotes(str) ==
  IF str = <<>> THEN <<>>
  ELSE IF Len(str) >= 2 /\ str[1] = "'" /\ str[2] = "'"
    THEN <<"'">> \o single_quotes(SubSeq(str, 3, Len(str)))
  ELSE <<Head(str)>> \o single_quotes(Tail(str))

sqlite_integer(str) == CHOOSE n \in 0..9 : <<ToString(n)>> = str

looks_integer(str) == Len(str) = 1 /\ str[1] \in DigitChars

\* SQLite reading one literal of VALUES (...)
sqlite_literal(literal) ==
  IF literal = <<"NULL">> THEN JNull
  ELSE IF Head(literal) = "'" THEN JString(single_quotes(SubSeq(literal, 2, Len(literal) - 1)))
  ELSE JInt(sqlite_integer(literal))

\* the column affinity SQLite applies on INSERT: an INTEGER column turns
\* integer-looking text into an integer, a TEXT column turns a number into
\* text, a column declared with no type keeps the value as given
sqlite_affinity(sqlite_type, val) ==
  IF sqlite_type = "INTEGER" /\ val.t = "string" /\ looks_integer(val.v)
    THEN JInt(sqlite_integer(val.v))
  ELSE IF sqlite_type = "TEXT" /\ val.t = "int" THEN JString(<<ToString(val.v)>>)
  ELSE val

\* INSERT INTO `table` (columns) VALUES (values_str): the stored row
sqlite_insert(table, values_str) ==
  LET columns == fql_schema_tables[table]
      literals == str_split(values_str, ValuesSeparator)
  IN  [i \in DOMAIN columns |-> sqlite_affinity(columns[i].sqlite_type,
                                                sqlite_literal(literals[i]))]

\* Python truth of a value: `if val`, bool(val)
bool(val) ==
  CASE val.t = "null" -> FALSE
    [] val.t = "bool" -> val.v
    [] val.t = "int" -> val.v # 0
    [] OTHER -> val.v # <<>>

\* column_to_json leaving a boolean column as stored
column_to_json_as_stored(column, val) ==
  IF bool(val) /\ column.sqlite_type = "" THEN json_loads_str(val) ELSE val

\* the body of the loop of sqlite_to_json for one column of one row
column_to_json(column, val) ==
  IF bool(val) /\ column.sqlite_type = "" THEN json_loads_str(val)
  ELSE IF column.fb_type = "bool" THEN JBool(bool(val))
  ELSE val

NoObjects == [exc |-> "None", objects |-> <<>>]

\* Schema.sqlite_to_json(cursor, table) for the cursor of SELECT * FROM table:
\* the objects, or the exception json.loads raised first
sqlite_to_json(rows, table) ==
  LET columns == fql_schema_tables[table]
      converted == [r \in DOMAIN rows |->
                      [i \in DOMAIN columns |-> column_to_json(columns[i], rows[r][i])]]
      failed == {p \in (DOMAIN rows) \X (DOMAIN columns) : converted[p[1]][p[2]].t = "raised"}
      first == CHOOSE p \in failed :
                 \A q \in failed : p[1] < q[1] \/ (p[1] = q[1] /\ p[2] <= q[2])
      index(name) == CHOOSE i \in DOMAIN columns : columns[i].name = name
  IN  IF failed # {} THEN [exc |-> converted[first[1]][first[2]].v, objects |-> <<>>]
      ELSE [exc |-> "None",
            objects |-> [r \in DOMAIN rows |->
                           [name \in ColumnNames(table) |-> converted[r][index(name)]]]]

(* ------------------------------ actions ------------------------------ *)

NoRequest ==
  [handler |-> "None", id |-> <<>>, has_ids |-> FALSE, ids |-> <<>>, connection |-> ""]

NoResponse == http_response(0, [exception |-> "None"], NoLocation)

NotInitialized == [initialized |-> FALSE, me |-> None, all_connections |-> {}]

\* the values ids= can have: up to max names joined by commas
IdsParams(max) ==
  {str_join(<<",">>, ns) : ns \in UNION {[1..n -> RequestNames] : n \in 1..max}}

\* the requests: the path form, the ids= form, and both at once
Requests ==
  {[id |-> path_id, has_ids |-> FALSE, ids |-> <<>>] : path_id \in RequestNames}
  \cup {[id |-> <<>>, has_ids |-> TRUE, ids |-> ids] : ids \in IdsParams(MaxIds)}
  \cup {[id |-> path_id, has_ids |-> TRUE, ids |-> ids] :
          path_id \in RequestNames \ {<<>>}, ids \in IdsParams(MaxIdsWithPath)}

Init ==
  /\ graph_objects = <<>>
  /\ graph_connections = <<>>
  /\ oauth_access_tokens = <<>>
  /\ handlers = [cls \in HandlerClasses \cup {"TestUsersHandler"} |-> NotInitialized]
  /\ request = NoRequest
  /\ response = NoResponse
  /\ queries = 0
  /\ raised = NoError
  /\ fql_data = <<>>
  /\ fql_table = <<>>
  /\ fql_objects = NoObjects

\* INSERT INTO graph_objects VALUES(id, alias, data): id is unique, and so
\* is a present alias
InsertObject(id, alias) ==
  /\ request = NoRequest
  /\ Len(graph_objects) < MaxObjects
  /\ \A i \in DOMAIN graph_objects :
       /\ graph_objects[i].id # id
       /\ alias # None => graph_objects[i].alias # alias
  /\ graph_objects' =
       Append(graph_objects,
              [id |-> id, alias |-> alias, data |-> json_dumps(object_payload(id))])
  /\ UNCHANGED <<fql_vars, oauth_access_tokens, graph_connections, handlers, request, response,
                 queries, raised>>

\* INSERT INTO graph_connections VALUES(id, connection, data)
InsertConnection(id, connection) ==
  /\ request = NoRequest
  /\ Len(graph_connections) < MaxRows
  /\ graph_connections' =
       Append(graph_connections,
              [id |-> id, connection |-> connection,
               data |-> json_dumps(connection_payload(connection, Len(graph_connections) + 1))])
  /\ UNCHANGED <<fql_vars, oauth_access_tokens, graph_objects, handlers, request, response,
                 queries, raised>>

\* BaseHandler.init(conn, me), called on the handler class cls
BaseHandler_init(cls, me) ==
  /\ request = NoRequest
  /\ handlers' = [handlers EXCEPT ![cls] =
       [initialized |-> TRUE, me |-> me,
        all_connections |-> all_connections_of(graph_schema_connections)]]
  /\ UNCHANGED <<fql_vars, oauth_access_tokens, graph_objects, graph_connections, request,
                 response, queries, raised>>

\* GET /<id>[?ids=...], routed to ObjectHandler
ObjectGet(path_id, has_ids, ids) ==
  /\ request = NoRequest
  /\ handlers["ObjectHandler"].initialized
  /\ request' = [handler |-> "ObjectHandler", id |-> path_id, has_ids |-> has_ids,
                 ids |-> ids, connection |-> ""]
  /\ \E out \in BaseHandler_get("ObjectHandler", graph_objects, graph_connections,
                                handlers["ObjectHandler"].all_connections,
                                path_id, has_ids, ids, "") :
       /\ response' = out.response
       /\ queries' = out.queries
       /\ raised' = out.raised
  /\ UNCHANGED <<fql_vars, oauth_access_tokens, graph_objects, graph_connections, handlers>>

\* GET /<id>/<connection>[?ids=...], routed to ConnectionHandler
ConnectionGet(path_id, has_ids, ids, connection) ==
  /\ request = NoRequest
  /\ handlers["ConnectionHandler"].initialized
  /\ request' = [handler |-> "ConnectionHandler", id |-> path_id, has_ids |-> has_ids,
                 ids |-> ids, connection |-> connection]
  /\ \E out \in BaseHandler_get("ConnectionHandler", graph_objects, graph_connections,
                                handlers["ConnectionHandler"].all_connections,
                                path_id, has_ids, ids, connection) :
       /\ response' = out.response
       /\ queries' = out.queries
       /\ raised' = out.raised
  /\ UNCHANGED <<fql_vars, oauth_access_tokens, graph_objects, graph_connections, handlers>>

\* the response has been returned to the client; the server is idle again
get_response ==
  /\ request # NoRequest
  /\ request' = NoRequest
  /\ response' = NoResponse
  /\ queries' = 0
  /\ raised' = NoError
  /\ UNCHANGED <<fql_vars, oauth_access_tokens, graph_objects, graph_connections, handlers>>

\* INSERT INTO oauth_access_tokens (user_id, token): the table has no
\* uniqueness constraint that the handler relies on
InsertToken(user_id, token) ==
  /\ request = NoRequest
  /\ Len(oauth_access_tokens) < MaxTokens
  /\ oauth_access_tokens' = Append(oauth_access_tokens, [user_id |-> user_id, token |-> token])
  /\ UNCHANGED <<fql_vars, graph_objects, graph_connections, handlers, request, response,
                 queries, raised>>

\* TestUsersHandler.init(conn, me): only the connection is kept
TestUsersHandler_init(me) ==
  /\ request = NoRequest
  /\ handlers' = [handlers EXCEPT !["TestUsersHandler"] =
       [initialized |-> TRUE, me |-> None, all_connections |-> {}]]
  /\ UNCHANGED <<fql_vars, graph_objects, graph_connections, oauth_access_tokens, request, response,
                 queries, raised>>

\* GET /<app_id>/accounts/test-users, routed to TestUsersHandler
TestUsersGet(app_id) ==
  /\ request = NoRequest
  /\ handlers["TestUsersHandler"].initialized
  /\ request' = [handler |-> "TestUsersHandler", id |-> app_id, has_ids |-> FALSE,
                 ids |-> <<>>, connection |-> ""]
  /\ response' = TestUsersHandler_get(oauth_access_tokens, app_id)
  /\ queries' = 1
  /\ raised' = NoError
  /\ UNCHANGED <<fql_vars, graph_objects, graph_connections, oauth_access_tokens, handlers>>

\* a fixture object is put into the dataset of the table
Data(table) ==
  /\ fql_data = <<>>
  /\ \E object \in Fixtures(table) : fql_data' = <<object>>
  /\ UNCHANGED <<graph_objects, graph_connections, oauth_access_tokens, handlers, request,
                 response, queries, raised, fql_table, fql_objects>>

\* FqlDataset.to_sql and the execution of its INSERT statements
FqlDataset_to_sql(table) ==
  /\ fql_data # <<>>
  /\ fql_table = <<>>
  /\ fql_table' = [i \in DOMAIN fql_data |->
                     sqlite_insert(table, json_to_sqlite(fql_data[i], table))]
  /\ UNCHANGED <<graph_objects, graph_connections, oauth_access_tokens, handlers, request,
                 response, queries, raised, fql_data, fql_objects>>

\* SELECT * FROM table, converted by Schema.sqlite_to_json
Select(table) ==
  /\ fql_table # <<>>
  /\ fql_objects = NoObjects
  /\ fql_objects' = sqlite_to_json(fql_table, table)
  /\ UNCHANGED <<graph_objects, graph_connections, oauth_access_tokens, handlers, request,
                 response, queries, raised, fql_data, fql_table>>

\* the object tests: ObjectHandler served from graph_objects
ObjectNext ==
  \/ \E id \in ObjectIds, alias \in Aliases : InsertObject(id, alias)
  \/ BaseHandler_init("ObjectHandler", ME)
  \/ \E r \in Requests : ObjectGet(r.id, r.has_ids, r.ids)
  \/ get_response

ObjectSpec == Init /\ [][ObjectNext]_vars

\* the connection tests: ConnectionHandler served from both tables
ConnectionNext ==
  \/ \E id \in ObjectIds, alias \in Aliases : InsertObject(id, alias)
  \/ \E id \in ObjectIds, connection \in StoredConnections : InsertConnection(id, connection)
  \/ BaseHandler_init("ConnectionHandler", ME)
  \/ \E r \in Requests, connection \in RequestConnections :
       ConnectionGet(r.id, r.has_ids, r.ids, connection)
  \/ get_response

ConnectionSpec == Init /\ [][ConnectionNext]_vars

\* the server of the tests: both routes, each handler class initialised
GraphNext ==
  \/ \E id \in ObjectIds, alias \in Aliases : InsertObject(id, alias)
  \/ \E id \in ObjectIds, connection \in StoredConnections : InsertConnection(id, connection)
  \/ \E cls \in HandlerClasses : BaseHandler_init(cls, ME)
  \/ \E r \in Requests : ObjectGet(r.id, r.has_ids, r.ids)
  \/ \E r \in Requests, connection \in RequestConnections :
       ConnectionGet(r.id, r.has_ids, r.ids, connection)
  \/ get_response

GraphSpec == Init /\ [][GraphNext]_vars

\* the test-users endpoint served from the token table
TestUsersNext ==
  \/ \E user_id \in UserIds, token \in Tokens : InsertToken(user_id, token)
  \/ TestUsersHandler_init(ME)
  \/ \E app_id \in AppIds : TestUsersGet(app_id)
  \/ get_response

TestUsersSpec == Init /\ [][TestUsersNext]_vars

\* the fixtures of the FQL table written to SQLite and read back
FqlNext ==
  \/ Data("user")
  \/ FqlDataset_to_sql("user")
  \/ Select("user")

FqlSpec == Init /\ [][FqlNext]_vars

(* ===================== what a state says of a request ================= *)

served == request.handler # "None"

single_form == served /\ request.id # <<>> /\ ~request.has_ids

ids_form == served /\ request.id = <<>> /\ request.has_ids

both_forms == served /\ request.id # <<>> /\ request.has_ids

\* the names of the request, in request order
requested_list == IF request.id # <<>> THEN <<request.id>> ELSE str_split(request.ids, ",")

requested == Range(requested_list)

empty_name(n) == n = <<>> \/ n = Str1("0")

\* one form only and every name non-empty and not "0": the lookup is reached
well_formed == (single_form \/ ids_form) /\ \A n \in requested : ~empty_name(n)

stored_objects == Range(graph_objects)

matches(o, n) == o.id = n \/ o.alias = n

\* the requested names that match no stored object, as id or as alias
unmatched == {n \in requested : \A o \in stored_objects : ~matches(o, n)}

\* the stored objects that some requested name matches
resolved == {o \in stored_objects : \E n \in requested : matches(o, n)}

all_resolve == well_formed /\ unmatched = {}

numeric(n) == n # <<>> /\ \A i \in DOMAIN n : n[i] \in DigitChars

\* the key an object is answered under: its alias when requested, else its id
response_key(o) == IF o.alias \in requested THEN o.alias ELSE o.id

\* the body {"error": {"message": ..., "type": ...}}
error_body(message, type) ==
  [json_text |-> JObject(Tok("error") :>
     JObject(Tok("message") :> JString(message) @@ Tok("type") :> JString(Tok(type))))]

text_body(message) == [text |-> message]

is_json(b) == "json_text" \in DOMAIN b

is_error_json(b) ==
  /\ is_json(b)
  /\ b.json_text.t = "object"
  /\ DOMAIN b.json_text.v = {Tok("error")}

error_message(b) == b.json_text.v[Tok("error")].v[Tok("message")].v

AliasPrefix == "(#803) Some of the aliases you requested do not exist: "

is_alias_not_found(r) ==
  /\ r.status = 200
  /\ is_error_json(r.body)
  /\ error_message(r.body)[1] = AliasPrefix

is_object_not_found(r) == r.status = 200 /\ r.body = text_body(<<"false">>)

is_objects_not_found(r) == r.status = 200 /\ r.body = text_body(<<"[", "\n", "\n", "]">>)

(* ================================ C1 ================================= *)

\* C1: when the lookup is reached and some requested name matches no stored
\* object, the response is AliasNotFound if an unmatched name is non-numeric,
\* else ObjectNotFound (body false) in the path form, else ObjectsNotFound
\* (body [, two newlines, ]) in the ids= form, even with one name; when every
\* name matches, the response is none of the three.
C1_NotFoundKind ==
  well_formed =>
    IF unmatched = {}
      THEN /\ ~is_alias_not_found(response)
           /\ ~is_object_not_found(response)
           /\ ~is_objects_not_found(response)
    ELSE IF \E n \in unmatched : ~numeric(n) THEN is_alias_not_found(response)
    ELSE IF single_form THEN is_object_not_found(response)
    ELSE is_objects_not_found(response)

\* GET /?ids=2 with no object 2: one numeric name in the ids= form
C1_Witness ==
  /\ ids_form
  /\ request.ids = Str1("2")
  /\ unmatched = {Str1("2")}
  /\ is_objects_not_found(response)

(* ================================ C2 ================================= *)

\* a GET /?ids=... to ObjectHandler in which every name resolves
object_ids_request == request.handler = "ObjectHandler" /\ ids_form /\ all_resolve

\* the mapping of a JSON-object body
body_mapping == response.body.json_text.v

is_mapping_body ==
  response.status = 200 /\ is_json(response.body) /\ response.body.json_text.t = "object"

\* C2 as claimed: the mapping has exactly one entry per distinct resolved
\* object, keyed by the alias when the alias is requested and by the id
\* otherwise, with that object's decoded payload as value.
C2_OneEntryPerObject ==
  object_ids_request =>
    /\ is_mapping_body
    /\ Cardinality(DOMAIN body_mapping) = Cardinality(resolved)
    /\ \A o \in resolved :
         /\ response_key(o) \in DOMAIN body_mapping
         /\ body_mapping[response_key(o)] = json_loads(o.data)

\* C2 as amended: the mapping has exactly one entry per distinct response
\* key of the resolved objects (alias when requested, else id); an entry
\* whose key belongs to one resolved object holds that object's decoded
\* payload, and an entry whose key is shared (a requested name that is the
\* id of one object and the alias of another) holds the payload of one of
\* the objects sharing it.
C2_OneEntryPerKey ==
  object_ids_request =>
    /\ is_mapping_body
    /\ DOMAIN body_mapping = {response_key(o) : o \in resolved}
    /\ \A k \in DOMAIN body_mapping :
         \E o \in resolved : response_key(o) = k /\ body_mapping[k] = json_loads(o.data)
    /\ \A o \in resolved :
         (\A p \in resolved : response_key(p) = response_key(o) => p = o)
           => body_mapping[response_key(o)] = json_loads(o.data)

\* GET /?ids=1,a where a is the alias of object 1: one entry, keyed a
C2_Witness ==
  /\ object_ids_request
  /\ request.ids = <<"1", ",", "a">>
  /\ Cardinality(resolved) = 1
  /\ is_mapping_body
  /\ DOMAIN body_mapping = {Str1("a")}

(* ================================ C3 ================================= *)

\* the responses the same handler gives when path_id is requested instead
responses_for_path(path_id) ==
  {out.response :
     out \in BaseHandler_get(request.handler, graph_objects, graph_connections,
                             handlers[request.handler].all_connections,
                             path_id, FALSE, <<>>, request.connection)}

\* C3: initialised with identity M as "me" and with object M stored, GET /me
\* (and GET /me/<connection>) answers exactly as GET /M (GET /M/<connection>)
\* does, though no stored object has the alias "me".
C3_MeIsIdentity ==
  (/\ single_form
   /\ request.id = <<"m", "e">>
   /\ \E o \in stored_objects : o.id = handlers[request.handler].me
   /\ \A o \in stored_objects : o.alias # <<"m", "e">>)
    => response \in responses_for_path(handlers[request.handler].me)

(* ================================ C4 ================================= *)

connection_request == served /\ request.handler = "ConnectionHandler"

\* the connection name is in the set of some table of the graph schema
legal_connection(c) ==
  \E t \in DOMAIN graph_schema_connections : c \in graph_schema_connections[t]

\* the decoded payloads, in storage order, of the rows of the requested
\* connection owned by one of ids
payloads_of(ids) ==
  LET owned(r) == r.id \in ids /\ r.connection = request.connection
      rows == SelectSeq(graph_connections, owned)
  IN  [i \in DOMAIN rows |-> json_loads(rows[i].data)]

resolved_ids == {o.id : o \in resolved}

no_redirect == request.connection # REDIRECT_CONNECTION \/ payloads_of(resolved_ids) = <<>>

data_object(list) == JObject(Tok("data") :> JArray(list))

listed_request ==
  connection_request /\ all_resolve /\ legal_connection(request.connection) /\ no_redirect

\* C4 as claimed: without a redirect the result has an entry for every
\* resolved key, and the data list of an object's key is exactly the decoded
\* payloads of the rows with that owner id and connection, in storage order;
\* the path form answers with that one {"data": [...]} object, the ids= form
\* with the mapping.
C4_RowsOfOwner ==
  listed_request =>
    /\ ids_form =>
         /\ is_mapping_body
         /\ DOMAIN body_mapping = {response_key(o) : o \in resolved}
         /\ \A o \in resolved :
              body_mapping[response_key(o)] = data_object(payloads_of({o.id}))
    /\ single_form =>
         /\ response.status = 200
         /\ \A o \in resolved : response.body = json_dumps(data_object(payloads_of({o.id})))

\* the ids of the resolved objects answered under key k
owners_of(k) == {o.id : o \in {p \in resolved : response_key(p) = k}}

\* C4 as amended: the data list of a key is exactly the decoded payloads, in
\* storage order, of the rows with that connection whose owner is a resolved
\* object answered under that key; that is one object, except that a name
\* that is the id of one object and the alias of another answers for both and
\* lists the rows of both.
C4_RowsOfKey ==
  listed_request =>
    /\ ids_form =>
         /\ is_mapping_body
         /\ DOMAIN body_mapping = {response_key(o) : o \in resolved}
         /\ \A k \in DOMAIN body_mapping :
              body_mapping[k] = data_object(payloads_of(owners_of(k)))
    /\ single_form =>
         /\ response.status = 200
         /\ response.body = json_dumps(data_object(payloads_of(owners_of(request.id))))

\* GET //albums?ids=a,b: a has two rows, b has none and is listed empty
C4_Witness ==
  /\ listed_request
  /\ request.ids = <<"a", ",", "b">>
  /\ is_mapping_body
  /\ DOMAIN body_mapping = {Str1("a"), Str1("b")}
  /\ Len(body_mapping[Str1("a")].v[Tok("data")].v) = 2
  /\ body_mapping[Str1("b")] = data_object(<<>>)

(* ================================ C5 ================================= *)

is_picture_row(i) ==
  /\ graph_connections[i].id \in resolved_ids
  /\ graph_connections[i].connection = REDIRECT_CONNECTION

\* the first picture row, in storage order, of the resolved objects
first_picture_row ==
  graph_connections[CHOOSE i \in DOMAIN graph_connections :
                      is_picture_row(i) /\ \A j \in 1..(i - 1) : ~is_picture_row(j)]

picture_request ==
  /\ connection_request
  /\ all_resolve
  /\ request.connection = REDIRECT_CONNECTION
  /\ \E i \in DOMAIN graph_connections : is_picture_row(i)

id_specified_body(path_id) ==
  error_body(<<"Invalid token: \"">> \o path_id \o <<"\".  An ID has already been specified.">>,
             "OAuthException")

\* C6: a non-empty path identifier together with an ids parameter of any
\* value is answered IdAlreadySpecified naming the path identifier, before
\* any other check and without a lookup.
C6_IdAlreadySpecified ==
  both_forms =>
    /\ response = http_response(200, id_specified_body(request.id), NoLocation)
    /\ queries = 0

\* GET /0?ids= : the path identifier is "0" and the ids value is empty
C6_Witness ==
  /\ both_forms
  /\ request.id = Str1("0")
  /\ request.ids = <<>>
  /\ response.body = id_specified_body(Str1("0"))

(* ================================ C7 ================================= *)

empty_identifier_body == error_body(<<"Cannot specify an empty identifier">>, "OAuthException")

\* C7: with one form only, a requested name that is empty or "0" is answered
\* EmptyIdentifier, before any lookup, whatever the other names are.
C7_EmptyIdentifier ==
  ((single_form \/ ids_form) /\ \E n \in requested : empty_name(n)) =>
    /\ response = http_response(200, empty_identifier_body, NoLocation)
    /\ queries = 0

\* GET /?ids=a, : a trailing comma, and no object a is stored
C7_Witness ==
  /\ ids_form
  /\ request.ids = <<"a", ",">>
  /\ graph_objects = <<>>
  /\ response.body = empty_identifier_body

(* ================================ C8 ================================= *)

unknown_path_body(c) == error_body(<<"Unknown path components: /", c>>, "OAuthException")

is_unknown_path(r) ==
  /\ is_error_json(r.body)
  /\ error_message(r.body)[1] = "Unknown path components: /"

\* C8: when the names resolve, a connection name outside the union of the
\* schema tables' connection sets is answered UnknownPath naming it, a name
\* inside the union never is, and malformed or unresolved names are answered
\* with their resolution error instead.
C8_UnknownPath ==
  connection_request =>
    /\ (all_resolve /\ ~legal_connection(request.connection))
         => response = http_response(200, unknown_path_body(request.connection), NoLocation)
    /\ legal_connection(request.connection) => ~is_unknown_path(response)
    /\ ~all_resolve => ~is_unknown_path(response)

\* GET /a/foo with a stored
C8_Witness ==
  /\ connection_request
  /\ single_form
  /\ request.id = Str1("a")
  /\ request.connection = "foo"
  /\ all_resolve
  /\ response.body = unknown_path_body("foo")

(* ================================ C9 ================================= *)

\* the requested names, in request order and once each, that match no stored
\* object and are not numeric
RECURSIVE missing_aliases(_)
missing_aliases(i) ==
  IF i = 0 THEN <<>>
  ELSE LET n == requested_list[i]
       IN  IF n \in unmatched /\ ~numeric(n) /\ \A j \in 1..(i - 1) : requested_list[j] # n
           THEN Append(missing_aliases(i - 1), n)
           ELSE missing_aliases(i - 1)

\* C9: the AliasNotFound message names exactly the requested names that are
\* not found and non-numeric, joined by commas in request order.
C9_AliasesInRequestOrder ==
  (well_formed /\ is_alias_not_found(response)) =>
    error_message(response.body) =
      <<AliasPrefix>> \o str_join(<<",">>, missing_aliases(Len(requested_list)))

(* ================================ C10 ================================ *)

test_users_request == request.handler = "TestUsersHandler"

\* the distinct (user_id, token) pairs of the token table
token_pairs == {<<r.user_id, r.token>> : r \in Range(oauth_access_tokens)}

\* C11: the test-users response is {"data": [...]} with one {"id": user_id,
\* "access_token": token} entry for every distinct (user_id, token) pair of
\* the token table, no other entry and no pair twice; and for the table as it
\* is, the response is the same for every numeric app id.
C11_TestUsers ==
  test_users_request =>
    /\ response.status = 200
    /\ is_json(response.body)
    /\ response.body.json_text.t = "object"
    /\ DOMAIN response.body.json_text.v = {Tok("data")}
    /\ LET data == response.body.json_text.v[Tok("data")].v
       IN  /\ Range(data) = {test_user(p) : p \in token_pairs}
           /\ Len(data) = Cardinality(token_pairs)
    /\ \A app_id \in AppIds : response = TestUsersHandler_get(oauth_access_tokens, app_id)

\* GET /42/accounts/test-users over three rows, two of them the same pair
C11_Witness ==
  /\ test_users_request
  /\ request.id = <<"4", "2">>
  /\ Len(oauth_access_tokens) = 3
  /\ oauth_access_tokens[1] = oauth_access_tokens[3]
  /\ Cardinality(token_pairs) = 2
  /\ Len(response.body.json_text.v[Tok("data")].v) = 2

(* ================================ C12 ================================ *)

\* the object has been written to the table and read back
read_back == fql_objects # NoObjects

\* the fixture object, and the object read back for it
fixture == fql_data[1]

result == fql_objects.objects[1]

column_of(name) ==
  LET columns == fql_schema_tables["user"]
  IN  columns[CHOOSE i \in DOMAIN columns : columns[i].name = name]

\* C12 as claimed: for any fixture object, json_to_sqlite, the store and
\* sqlite_to_json yield an object equal to the original in every declared
\* column the original has: composite values of JSON-text columns, booleans
\* of boolean-typed columns and scalars all come back as they were.
C12_RoundTrip ==
  read_back =>
    /\ fql_objects.exc = "None"
    /\ \A name \in DOMAIN fixture : result[name] = fixture[name]

\* the value is of the column's kind: a list, an object or None in a
\* JSON-text column that is not boolean-typed, a boolean in a boolean-typed
\* INTEGER column, an integer or None in another INTEGER column, a string or
\* None in a TEXT column
of_kind(column, val) ==
  IF column.sqlite_type = ""
    THEN column.fb_type # "bool" /\ val.t \in {"array", "object", "null"}
  ELSE IF column.fb_type = "bool" THEN column.sqlite_type = "INTEGER" /\ val.t = "bool"
  ELSE IF column.sqlite_type = "INTEGER" THEN val.t \in {"int", "null"}
  ELSE column.sqlite_type = "TEXT" /\ val.t \in {"string", "null"}

fixture_of_kind == \A name \in DOMAIN fixture : of_kind(column_of(name), fixture[name])

\* C12 as amended: when every field the fixture object has for a declared
\* column is of that column's kind, the object read back equals the original
\* in every declared column the original has, and a declared column the
\* original lacks comes back as the empty string, or as false when the
\* column is boolean-typed.
C12_RoundTripOfKind ==
  (read_back /\ fixture_of_kind) =>
    /\ fql_objects.exc = "None"
    /\ \A name \in ColumnNames("user") :
         result[name] =
           IF name \in DOMAIN fixture THEN fixture[name]
           ELSE IF column_of(name).fb_type = "bool" THEN JBool(FALSE)
           ELSE JString(<<>>)

\* a list in the JSON-text column, true in the boolean column, a name with a
\* quote in the string column, and no uid
C12_Witness ==
  /\ read_back
  /\ fixture_of_kind
  /\ DOMAIN fixture = {"affiliations", "is_app_user", "name"}
  /\ fixture["affiliations"] = JArray(<<JString(<<"x">>)>>)
  /\ fixture["is_app_user"] = JBool(TRUE)
  /\ fixture["name"] = JString(<<"'">>)
  /\ fql_table[1][1] = JString(<<"[", "\"", "x", "\"", "]">>)
  /\ result["affiliations"] = fixture["affiliations"]
  /\ result["uid"] = JString(<<>>)

(* ================================ C13 ================================ *)

\* the body is one of the fixed error bodies: the bare message of an untyped
\* kind, or {"error": {...}} with the type and the message of a typed kind
in_error_vocabulary(b) ==
  \E cls \in GraphErrors :
    IF GraphError_type(cls) = "None" THEN b = text_body(GraphError_message(cls))
    ELSE /\ is_error_json(b)
         /\ b.json_text.v[Tok("error")].v[Tok("type")].v = Tok(GraphError_type(cls))
         /\ error_message(b)[1] = GraphError_message(cls)[1]

\* neither a path identifier nor an ids parameter: GET / or GET //<connection>
no_identifier == served /\ request.id = <<>> /\ ~request.has_ids

\* C13: whatever the path identifier and the ids parameter are, get ends by
\* writing the JSON result or a body of the error vocabulary with status 200,
\* or by the picture redirect; in particular a request with an empty path
\* identifier and no ids parameter is answered from the error vocabulary.
C13_NoEscape ==
  served =>
    /\ \/ response.status = 200
            /\ (is_json(response.body) \/ in_error_vocabulary(response.body))
       \/ response.status = 302 /\ request.connection = REDIRECT_CONNECTION
    /\ no_identifier => (response.status = 200 /\ in_error_vocabulary(response.body))

(* ================================ C14 ================================ *)

\* a single-identifier request that passes name resolution
single_resolved == single_form /\ all_resolve

\* what prepare_ids returns for the request (one outcome when names resolve)
prepared ==
  CHOOSE p \in prepare_ids(graph_objects, request.id, request.has_ids, request.ids) : TRUE

\* what the handler's _get returns for the request
get_result ==
  IF request.handler = "ObjectHandler" THEN ObjectHandler_get(graph_objects, prepared.namedict)
  ELSE ConnectionHandler_get(graph_connections, handlers[request.handler].all_connections,
                             prepared.namedict, request.connection)

assertion_failed(r) == r.status = 500 /\ r.body = [exception |-> "AssertionError"]

empty_list_body(r) == r.body = json_dumps(JArray(<<>>))

\* C14: for a single-identifier request that passes name resolution, over any
\* store (a name that is the id of one object and the alias of another
\* included), a mapping returned by _get has exactly one entry, keyed by the
\* path identifier, and its value is the body; the assertion len(resp) == 1
\* never fails and the body [] of the empty-result branch is never written.
C14_SingleEntry ==
  single_resolved =>
    /\ ~assertion_failed(response)
    /\ ~empty_list_body(response)
    /\ (get_result.exc = NoError /\ ~get_result.redirected) =>
         /\ DOMAIN get_result.resp = {request.id}
         /\ response = http_response(200, json_dumps(get_result.resp[request.id]), NoLocation)

\* GET /1 to ObjectHandler where 1 is the id of one object and the alias of
\* the other: both rows answer under the key 1
C14_Witness ==
  /\ single_resolved
  /\ request.handler = "ObjectHandler"
  /\ request.id = Str1("1")
  /\ Cardinality(resolved) = 2
  /\ DOMAIN get_result.resp = {Str1("1")}
  /\ response.status = 200

====
